---- MODULE Spec2Model ----
(***************************************************************************)
(* BGP EVPN configuration generator: the YAML data model, the converter    *)
(* (yaml_to_template_vars.py) and the device configuration generator       *)
(* (generate_device_config.py).                                            *)
(*                                                                         *)
(* Representation.  The loaded document (data_model) is a record:          *)
(*   omitted         the subtrees of the fixed schema the document leaves  *)
(*                   out, each named by the path of its root; a path is    *)
(*                   the sequence of the parts of a dotted path            *)
(*                   ("fabric.bgp_asn" is <<"fabric", "bgp_asn">>);        *)
(*   roles           devices.roles: role name -> hostnames of its list     *)
(*                   (a role whose list is missing is not in the domain);  *)
(*   underlay        the hostnames that are keys of                        *)
(*                   devices.loopbacks.underlay;                           *)
(*   definitions     vrfs.definitions, a sequence of [id, name];           *)
(*   mappings        vrfs.device_mappings in key order, a sequence of      *)
(*                   [device, ids] with pairwise distinct devices;         *)
(*   required_fields validation.required_fields;                           *)
(*   overlay, connections, servers, tunnels                                *)
(*                   the list sections, each item the set of the field     *)
(*                   names it carries (the values are passed through).     *)
(* A raised Python exception is a result whose status names it.            *)
(***************************************************************************)
EXTENDS Integers, Sequences, FiniteSets, TLC

VARIABLES
    doc,        \* converter.data_model, read-only after load
    ret,        \* the last completed call of the data-model API
    args,       \* the parsed command line of the config generator
    pc,         \* position of the config generator's main()
    todo,       \* generate_all_configs: templates still to generate
    cur,        \* generate_config: the template being generated
    tvars,      \* generate_config: the template variables of the device
    attempts,   \* _render_fabric_template: the render attempts made for cur
    failures,   \* failed render attempts of this run (at most MaxFailures)
    configs,    \* generate_all_configs: the slots filled so far
    single,     \* a generation result on its way to main()'s try block
    stdout,     \* what main() printed, in order
    files,      \* the files of the output directory: name -> content
    exitCode    \* the process exit status, NoExit while running

vars == <<doc, ret, args, pc, todo, cur, tvars, attempts, failures,
          configs, single, stdout, files, exitCode>>

runVars == <<args, pc, todo, cur, tvars, attempts, failures,
             configs, single, stdout, files, exitCode>>

\* ------------------------------------------------------------------ bounds

MaxDefs == 2        \* longest vrfs.definitions sequence
MaxMapped == 2      \* longest VRF id list of one device mapping
MaxReq == 2         \* longest validation.required_fields sequence
MaxFailures == 2    \* most failing render attempts in one run

\* ------------------------------------------------------------- vocabulary

Hosts == {"h1", "h2"}
NoHost == "<None>"
EmptyHost == ""
Targets == Hosts \cup {NoHost, EmptyHost}

RoleNames == {"spine", "border", "leaf", "route_reflector", "client"}

VrfIds == {1, 2}
VrfRecs == {[id |-> 1, name |-> "VRF_A"], [id |-> 2, name |-> "VRF_B"],
            [id |-> 1, name |-> "VRF_C"]}

Min(S) == CHOOSE x \in S : \A y \in S : x <= y

Range(s) == {s[i] : i \in 1..Len(s)}

BoundedSeq(S, n) == UNION {[1..k -> S] : k \in 0..n}

IsPrefix(p, q) == Len(p) <= Len(q) /\ SubSeq(q, 1, Len(p)) = p

Prefixes(p) == {SubSeq(p, 1, i) : i \in 1..Len(p)}

\* ------------------------------------------------------------ the schema

\* The fixed-schema dereferences of convert_to_template_vars up to the list
\* sections, in evaluation order.
ScalarDerefs ==
    << <<"fabric", "bgp_asn">>, <<"fabric", "underlay">>,
       <<"fabric", "ipsec_underlay">>,
       <<"vni_offsets", "l2_vni_offset">>, <<"vni_offsets", "l3_vni_offset">>,
       <<"multicast", "fabric_rp", "address">>,
       <<"multicast", "fabric_rp", "scopes">>,
       <<"multicast", "enterprise_rp", "address">>,
       <<"multicast", "enterprise_rp", "scopes">>,
       <<"devices", "roles", "spine">>,
       <<"devices", "roles", "route_reflector">>,
       <<"devices", "roles", "client">>,
       <<"devices", "roles", "border">>,
       <<"devices", "loopbacks", "underlay">>,
       <<"devices", "loopbacks", "ipsec">>,
       <<"devices", "loopbacks", "multi_cluster">>,
       <<"devices", "loopbacks", "overlay_prefixes">>,
       <<"devices", "loopbacks", "interface_names">>,
       <<"vrfs", "definitions">>, <<"vrfs", "device_mappings">> >>

OverlayFields == <<"vrf", "vlans">>
VlanFields == <<"name", "ip_address", "mac_address", "dhcp_helper", "bum_address">>
ConnectionFields == <<"vrf", "device", "neighbor_asn", "interfaces">>
InterfaceFields == <<"name", "vlan", "ip_address", "neighbor_ip">>
ServerFields == <<"vrf", "server_ip", "shared_key">>
TunnelFields == <<"tunnel_ip", "peer_ip", "tunnel_destination", "tunnel_mode",
                  "peer_bgp_asn">>

\* The names convert_to_template_vars always defines.
BaseVarNames ==
    {"FABRIC_BGP_ASN", "FABRIC_UNDERLAY", "FABRIC_IPSEC_UNDERLAY",
     "L2VNIOFFSET", "L3VNIOFFSET",
     "FABRIC_RP_ADDR", "FABRIC_RP_SCOPES", "ENTERPRISE_RP_ADDR",
     "ENTERPRISE_RP_SCOPES", "DEFN_NODE_ROLES",
     "DEFN_LOOP_UNDERLAY", "DEFN_LOOP_IPSEC", "DEFN_LOOP_MCLUSTER",
     "DEFN_LOOP_OVERLAY", "DEFN_LOOP_NAME",
     "DEFN_VRF", "DEFN_VRF_TO_NODE", "DEFN_OVERLAY", "DEFN_L3OUT",
     "DEFN_L3OUT_AGGREGATES", "DEFN_NAC_IOT", "DEFN_IPSEC"}

\* Every mapping-key path of the schema other than the role lists, which the
\* document carries in doc.roles.
StaticLeaves ==
    ({ScalarDerefs[i] : i \in 1..Len(ScalarDerefs)}
        \ {<<"devices", "roles", r>> : r \in RoleNames})
    \cup {<<"devices", "roles">>, <<"overlay_networks">>,
          <<"l3_external", "connections">>, <<"l3_external", "aggregate_routes">>,
          <<"network_access_control", "servers">>, <<"ipsec", "tunnels">>,
          <<"validation", "required_fields">>}

SchemaKeys == UNION {Prefixes(p) : p \in StaticLeaves}

\* Whether path k lies in a subtree the document leaves out.
Omitted(d, k) == \E p \in d.omitted : IsPrefix(p, k)

\* Whether mapping-key path k exists in document d: a path of the schema,
\* a role list or an underlay loopback entry, outside every omitted subtree.
Exists(d, k) ==
    /\ \/ k \in SchemaKeys
       \/ \E r \in DOMAIN d.roles : k = <<"devices", "roles", r>>
       \/ \E h \in d.underlay : k = <<"devices", "loopbacks", "underlay", h>>
    /\ ~Omitted(d, k)

\* The key at which dereferencing path p raises KeyError, as a sequence of
\* at most one key.
PathMissing(d, p) ==
    LET bad == {i \in 1..Len(p) : ~Exists(d, SubSeq(p, 1, i))}
    IN  IF bad = {} THEN <<>> ELSE <<p[Min(bad)]>>

RECURSIVE PathsMissing(_, _)
PathsMissing(d, ps) ==
    IF ps = <<>> THEN <<>>
    ELSE PathMissing(d, Head(ps)) \o PathsMissing(d, Tail(ps))

\* --------------------------------------------------------- call results

Ok(v) == [status |-> "ok", key |-> "", value |-> v]

Raise(exc, k) == [status |-> exc, key |-> k, value |-> <<>>]

\* ----------------------------------------------------- Device Role Resolver

\* roles.get(r, [])
RoleList(d, r) == IF r \in DOMAIN d.roles THEN d.roles[r] ELSE {}

\* A resolver that tests the leaf list before the spine and border lists.
ResolveRoleLeafFirst(d, h) ==
    IF h \in RoleList(d, "leaf") THEN "leaf"
    ELSE IF h \in RoleList(d, "spine") THEN "spine"
    ELSE IF h \in RoleList(d, "border") THEN "border"
    ELSE "unknown"

\* The if/elif chain of get_device_role.
ResolveRole(d, h) ==
    IF h \in RoleList(d, "spine") THEN "spine"
    ELSE IF h \in RoleList(d, "border") THEN "border"
    ELSE IF h \in RoleList(d, "leaf") THEN "leaf"
    ELSE "unknown"

GetDeviceRole(d, h) ==
    LET miss == PathMissing(d, <<"devices", "roles">>)
    IN  IF miss # <<>> THEN Raise("KeyError", Head(miss))
        ELSE Ok(ResolveRole(d, h))

\* The union of every role list; sorted() makes the order of the returned
\* list a function of this set.
AllDevices(d) == UNION {d.roles[r] : r \in DOMAIN d.roles}

GetDeviceList(d) ==
    LET miss == PathMissing(d, <<"devices", "roles">>)
    IN  IF miss # <<>> THEN Raise("KeyError", Head(miss))
        ELSE Ok(AllDevices(d))

\* ------------------------------------------------------ Data Model Validator

\* data_model.get('validation', {}).get('required_fields', [])
RequiredFields(d) ==
    IF Exists(d, <<"validation", "required_fields">>)
    THEN d.required_fields ELSE <<>>

\* The loop of _check_field_exists from part i on: current is a mapping
\* holding the part exactly when the path up to the part exists.
RECURSIVE CheckFrom(_, _, _)
CheckFrom(d, path, i) ==
    IF i > Len(path) THEN TRUE
    ELSE IF Exists(d, SubSeq(path, 1, i)) THEN CheckFrom(d, path, i + 1)
    ELSE FALSE

CheckFieldExists(d, path) == CheckFrom(d, path, 1)

Msg(text, path, devices, device, ids) ==
    [msg |-> text, path |-> path, devices |-> devices, device |-> device,
     ids |-> ids]

RequiredMsg(path) == Msg("Required field missing", path, {}, "", {})
UniqueMsg == Msg("VRF IDs must be unique", <<>>, {}, "", {})
LoopbackMsg(devices) == Msg("Devices missing underlay loopbacks", <<>>, devices, "", {})
InvalidVrfMsg(device, ids) ==
    Msg("Device references invalid VRF IDs", <<>>, {}, device, ids)

RECURSIVE RequiredErrors(_, _)
RequiredErrors(d, paths) ==
    IF paths = <<>> THEN <<>>
    ELSE (IF ~CheckFieldExists(d, Head(paths)) THEN <<RequiredMsg(Head(paths))>>
          ELSE <<>>)
         \o RequiredErrors(d, Tail(paths))

\* vrf_ids = [vrf['id'] for vrf in definitions]
VrfIdList(d) == [i \in 1..Len(d.definitions) |-> d.definitions[i].id]

\* len(vrf_ids) != len(set(vrf_ids))
UniqueErrors(d) ==
    IF Len(VrfIdList(d)) # Cardinality(Range(VrfIdList(d)))
    THEN <<UniqueMsg>> ELSE <<>>

LoopbackErrors(d) ==
    LET missing_loopbacks == AllDevices(d) \ d.underlay
    IN  IF missing_loopbacks # {} THEN <<LoopbackMsg(missing_loopbacks)>>
        ELSE <<>>

RECURSIVE MappingErrors(_, _)
MappingErrors(d, items) ==
    IF items = <<>> THEN <<>>
    ELSE LET invalid_vrfs == Range(Head(items).ids) \ Range(VrfIdList(d))
         IN  (IF invalid_vrfs # {}
              THEN <<InvalidVrfMsg(Head(items).device, invalid_vrfs)>>
              ELSE <<>>)
             \o MappingErrors(d, Tail(items))

\* The paths validate_data_model dereferences without a default, in order.
ValidatorDerefs ==
    << <<"vrfs", "definitions">>, <<"devices", "roles">>,
       <<"devices", "loopbacks", "underlay">>, <<"vrfs", "device_mappings">> >>

\* A validator that returns at the first check that finds a violation.
ValidateFirstFailure(d) ==
    LET miss == PathsMissing(d, ValidatorDerefs)
        req == RequiredErrors(d, RequiredFields(d))
    IN  IF miss # <<>> THEN Raise("KeyError", Head(miss))
        ELSE IF req # <<>> THEN Ok(req)
        ELSE IF UniqueErrors(d) # <<>> THEN Ok(UniqueErrors(d))
        ELSE IF LoopbackErrors(d) # <<>> THEN Ok(LoopbackErrors(d))
        ELSE Ok(MappingErrors(d, d.mappings))

ValidateDataModel(d) ==
    LET miss == PathsMissing(d, ValidatorDerefs)
    IN  IF miss # <<>> THEN Raise("KeyError", Head(miss))
        ELSE Ok(RequiredErrors(d, RequiredFields(d))
                \o UniqueErrors(d)
                \o LoopbackErrors(d)
                \o MappingErrors(d, d.mappings))

\* --------------------------------------------------- Template Variable Mapper

MissingIn(fields, present) == SelectSeq(fields, LAMBDA k : k \notin present)

RECURSIVE FlatMissing(_, _)
FlatMissing(items, fields) ==
    IF items = <<>> THEN <<>>
    ELSE MissingIn(fields, Head(items)) \o FlatMissing(Tail(items), fields)

\* The keys a list of [keys, sub] items lacks, in the order the two nested
\* loops dereference them: the item's own fields, then the fields of each
\* entry of its nested mapping.
RECURSIVE NestedMissing(_, _, _)
NestedMissing(items, fields, subfields) ==
    IF items = <<>> THEN <<>>
    ELSE MissingIn(fields, Head(items).keys)
         \o FlatMissing(Head(items).sub, subfields)
         \o NestedMissing(Tail(items), fields, subfields)

\* Every key whose dereference would raise, in the order
\* convert_to_template_vars reaches them; the first one is raised.
MapperMissing(d) ==
    PathsMissing(d, ScalarDerefs)
    \o PathMissing(d, <<"overlay_networks">>)
    \o NestedMissing(d.overlay, OverlayFields, VlanFields)
    \o PathMissing(d, <<"l3_external", "connections">>)
    \o NestedMissing(d.connections, ConnectionFields, InterfaceFields)
    \o PathMissing(d, <<"l3_external", "aggregate_routes">>)
    \o PathMissing(d, <<"network_access_control", "servers">>)
    \o FlatMissing(d.servers, ServerFields)
    \o PathMissing(d, <<"ipsec", "tunnels">>)
    \o FlatMissing(d.tunnels, TunnelFields)

\* if device_hostname:
Truthy(h) == h \notin {NoHost, EmptyHost}

\* device_hostname in template_vars['DEFN_VRF_TO_NODE']
IsMapped(d, h) == \E i \in 1..Len(d.mappings) : d.mappings[i].device = h

\* template_vars['DEFN_VRF_TO_NODE'][device_hostname]
MappedIds(d, h) ==
    d.mappings[CHOOSE i \in 1..Len(d.mappings) : d.mappings[i].device = h].ids

\* A translation that walks the mapped ids and emits the first definition
\* of each.
RECURSIVE VrfListByMappedOrder(_, _)
VrfListByMappedOrder(defs, ids) ==
    IF ids = <<>> THEN <<>>
    ELSE LET hit == {i \in 1..Len(defs) : defs[i].id = Head(ids)}
         IN  (IF hit = {} THEN <<>> ELSE <<defs[Min(hit)].name>>)
             \o VrfListByMappedOrder(defs, Tail(ids))

\* for vrf_def in DEFN_VRF: if vrf_def['id'] in device_vrf_ids: append name
RECURSIVE VrfList(_, _)
VrfList(defs, ids) ==
    IF defs = <<>> THEN <<>>
    ELSE (IF Head(defs).id \in Range(ids) THEN <<Head(defs).name>> ELSE <<>>)
         \o VrfList(Tail(defs), ids)

TemplateVars(d, h) ==
    LET scoped == Truthy(h)
        listed == scoped /\ IsMapped(d, h)
    IN  [names |-> BaseVarNames
                   \cup (IF scoped THEN {"__device"} ELSE {})
                   \cup (IF listed THEN {"vrf_list"} ELSE {}),
         device |-> IF scoped THEN h ELSE NoHost,
         has_vrf_list |-> listed,
         vrf_list |-> IF listed THEN VrfList(d.definitions, MappedIds(d, h))
                      ELSE <<>>]

ConvertToTemplateVars(d, h) ==
    LET miss == MapperMissing(d)
    IN  IF miss # <<>> THEN Raise("KeyError", Head(miss))
        ELSE Ok(TemplateVars(d, h))

GenerateDeviceSpecificVars(d, h) == ConvertToTemplateVars(d, h)

\* ------------------------------------------------------------- documents

FullOverlay == <<[keys |-> Range(OverlayFields), sub |-> <<Range(VlanFields)>>]>>
FullConnections ==
    <<[keys |-> Range(ConnectionFields), sub |-> <<Range(InterfaceFields)>>]>>
FullServers == <<Range(ServerFields)>>
FullTunnels == <<Range(TunnelFields)>>

BaseRoles ==
    [spine |-> {"h1"}, border |-> {}, leaf |-> {"h2"},
     route_reflector |-> {"h1"}, client |-> {"h2"}]

\* A complete, valid document: one spine, one leaf, two VRFs, one mapping.
BaseDoc ==
    [omitted |-> {},
     roles |-> BaseRoles,
     underlay |-> Hosts,
     definitions |-> <<[id |-> 1, name |-> "VRF_A"], [id |-> 2, name |-> "VRF_B"]>>,
     mappings |-> <<[device |-> "h2", ids |-> <<1>>]>>,
     required_fields |-> <<>>,
     overlay |-> FullOverlay,
     connections |-> FullConnections,
     servers |-> FullServers,
     tunnels |-> FullTunnels]

\* Every devices.roles mapping over the five role names: each list missing
\* or any set of hostnames.
RoleMaps == UNION {[S -> SUBSET Hosts] : S \in SUBSET RoleNames}

RoleDocs ==
    {[BaseDoc EXCEPT !.roles = rm] : rm \in RoleMaps}
    \cup {[BaseDoc EXCEPT !.omitted = {p}] :
            p \in {<<"devices">>, <<"devices", "roles">>}}

\* vrfs.device_mappings: no entry, one entry with a bounded id list, or two
\* entries in either key order, the second with at most one id.
MappingItems(hs, n) ==
    {[device |-> h, ids |-> ids] : h \in hs, ids \in BoundedSeq(VrfIds, n)}

MappingSeqs ==
    {<<>>}
    \cup {<<m>> : m \in MappingItems(Hosts \cup {EmptyHost}, MaxMapped)}
    \cup {<<m, n>> : m \in MappingItems({"h1"}, MaxMapped),
                     n \in MappingItems({"h2"}, 1)}
    \cup {<<m, n>> : m \in MappingItems({"h2"}, MaxMapped),
                     n \in MappingItems({"h1"}, 1)}

VrfDocs ==
    {[BaseDoc EXCEPT !.definitions = defs, !.mappings = maps] :
        defs \in BoundedSeq(VrfRecs, MaxDefs), maps \in MappingSeqs}

\* Dotted paths a document may list as required: two of the schema and one
\* outside it.
ReqPaths ==
    {<<"fabric", "bgp_asn">>, <<"devices", "loopbacks", "ipsec">>,
     <<"site", "name">>}

\* Subtrees a document may omit.
OmitChoices ==
    {<<"fabric">>, <<"fabric", "bgp_asn">>, <<"devices", "loopbacks", "ipsec">>,
     <<"devices", "loopbacks">>, <<"vrfs", "device_mappings">>,
     <<"validation">>, <<"ipsec">>}

OmitSets == {{}} \cup {{p} : p \in OmitChoices}

FieldRoleMaps ==
    {[BaseRoles EXCEPT !.leaf = l] : l \in {{"h2"}, Hosts}}
    \cup {[r \in RoleNames \ {"client"} |-> BaseRoles[r]]}

\* List sections whose items lack a field the mapper renames.
ListVariants ==
    {[overlay |-> FullOverlay, tunnels |-> FullTunnels],
     [overlay |-> <<[keys |-> Range(OverlayFields),
                     sub |-> <<Range(VlanFields) \ {"mac_address"}>>]>>,
      tunnels |-> FullTunnels],
     [overlay |-> FullOverlay,
      tunnels |-> <<Range(TunnelFields), Range(TunnelFields) \ {"peer_ip"}>>]}

VrfVariants ==
    {[definitions |-> BaseDoc.definitions, mappings |-> BaseDoc.mappings],
     [definitions |-> <<[id |-> 1, name |-> "VRF_A"], [id |-> 1, name |-> "VRF_C"]>>,
      mappings |-> <<[device |-> "h1", ids |-> <<2>>],
                     [device |-> "h2", ids |-> <<1, 2>>]>>]}

FieldDocs ==
    {[BaseDoc EXCEPT !.omitted = om, !.required_fields = req, !.roles = rm,
                     !.underlay = ul, !.definitions = vv.definitions,
                     !.mappings = vv.mappings, !.overlay = lv.overlay,
                     !.tunnels = lv.tunnels] :
        om \in OmitSets, req \in BoundedSeq(ReqPaths, MaxReq),
        rm \in FieldRoleMaps, ul \in {Hosts, {"h1"}},
        vv \in VrfVariants, lv \in ListVariants}

\* --------------------------------------------------------- the idle process

NoExit == -1

NoArgs ==
    [data_model |-> "ok", device |-> NoHost, template |-> "",
     all_templates |-> FALSE, output_dir |-> FALSE, list_devices |-> FALSE,
     list_templates |-> FALSE]

NoCall == [op |-> "none", arg |-> NoHost, out |-> Ok(<<>>)]

IdleRun ==
    /\ args = NoArgs
    /\ pc = "idle"
    /\ todo = <<>>
    /\ cur = ""
    /\ tvars = Ok(<<>>)
    /\ attempts = <<>>
    /\ failures = 0
    /\ configs = <<>>
    /\ single = Ok(<<>>)
    /\ stdout = <<>>
    /\ files = <<>>
    /\ exitCode = NoExit

\* ------------------------------------------- calls of the data-model API
\* Each behaviour makes one call on its document: the document is read-only
\* and the calls share no state, so a second call adds nothing.

CallGetDeviceRole(h) ==
    /\ ret = NoCall
    /\ ret' = [op |-> "get_device_role", arg |-> h, out |-> GetDeviceRole(doc, h)]
    /\ UNCHANGED <<doc, runVars>>

CallGetDeviceList ==
    /\ ret = NoCall
    /\ ret' = [op |-> "get_device_list", arg |-> NoHost, out |-> GetDeviceList(doc)]
    /\ UNCHANGED <<doc, runVars>>

CallValidateDataModel ==
    /\ ret = NoCall
    /\ ret' = [op |-> "validate_data_model", arg |-> NoHost,
               out |-> ValidateDataModel(doc)]
    /\ UNCHANGED <<doc, runVars>>

CallConvertToTemplateVars(h) ==
    /\ ret = NoCall
    /\ ret' = [op |-> "convert_to_template_vars", arg |-> h,
               out |-> ConvertToTemplateVars(doc, h)]
    /\ UNCHANGED <<doc, runVars>>

\* The role resolver over every shape of devices.roles.
InitRoles == doc \in RoleDocs /\ ret = NoCall /\ IdleRun

NextRoles ==
    \/ \E h \in Hosts : CallGetDeviceRole(h)
    \/ CallGetDeviceList

SpecRoles == InitRoles /\ [][NextRoles]_vars

\* The validator and the mapper over documents that vary the VRF sections,
\* the omitted fields, the required-field list and the list items.
InitConvert == doc \in VrfDocs \cup FieldDocs /\ ret = NoCall /\ IdleRun

NextConvert ==
    \/ CallValidateDataModel
    \/ \E h \in Targets : CallConvertToTemplateVars(h)

SpecConvert == InitConvert /\ [][NextConvert]_vars

\* ============================================= the configuration generator

\* available_templates in insertion order: template name, template file.
TemplateOrder ==
    <<"DEFN-VRF", "DEFN-ROLES", "DEFN-LOOPBACKS", "DEFN-OVERLAY", "DEFN-L3OUT",
      "DEFN-MCAST", "DEFN-VNIOFFSETS", "DEFN-NAC-IOT", "DEFN-IPSEC",
      "FABRIC-VRF", "FABRIC-LOOPBACKS", "FABRIC-NVE", "FABRIC-MCAST",
      "FABRIC-EVPN", "FABRIC-OVERLAY", "FABRIC-NAC-IOT", "FABRIC-IPSEC">>

AvailableTemplates ==
    ( "DEFN-VRF" :> "DEFN-VRF.j2" @@ "DEFN-ROLES" :> "DEFN-ROLES.j2"
   @@ "DEFN-LOOPBACKS" :> "DEFN-LOOPBACKS.j2" @@ "DEFN-OVERLAY" :> "DEFN-OVERLAY.j2"
   @@ "DEFN-L3OUT" :> "DEFN-L3OUT.j2" @@ "DEFN-MCAST" :> "DEFN-MCAST.j2"
   @@ "DEFN-VNIOFFSETS" :> "DEFN-VNIOFFSETS.j2" @@ "DEFN-NAC-IOT" :> "DEFN-NAC-IOT.j2"
   @@ "DEFN-IPSEC" :> "DEFN-IPSEC.j2" @@ "FABRIC-VRF" :> "FABRIC-VRF.j2"
   @@ "FABRIC-LOOPBACKS" :> "FABRIC-LOOPBACKS.j2" @@ "FABRIC-NVE" :> "FABRIC-NVE.j2"
   @@ "FABRIC-MCAST" :> "FABRIC-MCAST.j2" @@ "FABRIC-EVPN" :> "FABRIC-EVPN.j2"
   @@ "FABRIC-OVERLAY" :> "FABRIC-OVERLAY.j2" @@ "FABRIC-NAC-IOT" :> "FABRIC-NAC-IOT.j2"
   @@ "FABRIC-IPSEC" :> "FABRIC-IPSEC.j2" )

\* t.startswith('DEFN-') over the names of available_templates.
StartsWithDefn(t) ==
    t \in {"DEFN-VRF", "DEFN-ROLES", "DEFN-LOOPBACKS", "DEFN-OVERLAY",
           "DEFN-L3OUT", "DEFN-MCAST", "DEFN-VNIOFFSETS", "DEFN-NAC-IOT",
           "DEFN-IPSEC"}

\* definition_templates = [t for t in available_templates if t.startswith('DEFN-')]
DefinitionTemplates == SelectSeq(TemplateOrder, StartsWithDefn)

\* A selector that also gives the IPSec template to leaf devices.
FabricTemplatesIpsecForLeaf(device_role) ==
    IF device_role \notin {"spine", "leaf", "border"} THEN <<>>
    ELSE <<"FABRIC-VRF", "FABRIC-LOOPBACKS", "FABRIC-NVE", "FABRIC-MCAST",
           "FABRIC-EVPN">>
         \o (IF device_role \in {"leaf", "border"} THEN <<"FABRIC-OVERLAY">> ELSE <<>>)
         \o (IF device_role = "leaf" THEN <<"FABRIC-NAC-IOT">> ELSE <<>>)
         \o (IF device_role \in {"leaf", "border"} THEN <<"FABRIC-IPSEC">> ELSE <<>>)

\* The fabric templates generate_all_configs selects for a role.
FabricTemplates(device_role) ==
    IF device_role \notin {"spine", "leaf", "border"} THEN <<>>
    ELSE <<"FABRIC-VRF", "FABRIC-LOOPBACKS", "FABRIC-NVE", "FABRIC-MCAST",
           "FABRIC-EVPN">>
         \o (IF device_role \in {"leaf", "border"} THEN <<"FABRIC-OVERLAY">> ELSE <<>>)
         \o (IF device_role = "leaf" THEN <<"FABRIC-NAC-IOT">> ELSE <<>>)
         \o (IF device_role = "border" THEN <<"FABRIC-IPSEC">> ELSE <<>>)

\* A bulk selection that leaves the definition templates out for a device
\* without a fabric role.
AllTemplatesKnownRoleOnly(device_role) ==
    IF FabricTemplates(device_role) = <<>> THEN <<>>
    ELSE DefinitionTemplates \o FabricTemplates(device_role)

\* all_templates = definition_templates + fabric_templates
AllTemplates(device_role) == DefinitionTemplates \o FabricTemplates(device_role)

\* Rendered text, abstractly: how it was produced, for which template and
\* device, and the macro the wrapper called.
Text(kind, t, h, macro) ==
    [kind |-> kind, template |-> t, device |-> h, macro |-> macro, detail |-> ""]

\* f"Error generating {template_name}: {str(e)}"
ErrorText(t, h, e) ==
    [kind |-> "error", template |-> t, device |-> h, macro |-> "none",
     detail |-> e.status]

NoText == [kind |-> "none", template |-> "", device |-> NoHost, macro |-> "none",
           detail |-> ""]

\* What the name template_file evaluates to inside the wrapper template: the
\* wrapper is rendered with render(**template_vars), so the name resolves
\* against the template variables alone and is Undefined unless they define it.
WrapperTemplateFile(names, template_file) ==
    IF "template_file" \in names THEN template_file ELSE "<Undefined>"

\* {% if template_file == "FABRIC-VRF.j2" %} ... {% elif ... OVERLAY %}
WrapperMacro(names, template_file) ==
    IF WrapperTemplateFile(names, template_file) = "FABRIC-VRF.j2"
        THEN "vrfDefinitionBuild"
    ELSE IF WrapperTemplateFile(names, template_file) = "FABRIC-OVERLAY.j2"
        THEN "overlayBuild"
    ELSE "none"

\* ------------------------------------------------ main() of the generator

HostOrder == <<"h1", "h2">>

\* sorted(list(all_devices))
Sorted(devices) == SelectSeq(HostOrder, LAMBDA h : h \in devices)

Line(what, name, role, body) ==
    [what |-> what, name |-> name, role |-> role, body |-> body]

\* f"{device_hostname}_{template_name}.cfg" in the output directory
FileName(h, t) == [device |-> h, template |-> t, ext |-> "cfg"]

\* The header save_device_configs writes before the configuration.
BulkHeader(h, t) ==
    <<Line("! Configuration generated from template", t, "", NoText),
      Line("! Device:", h, "", NoText),
      Line("! Generated by BGP EVPN Config Generator", "", "", NoText),
      Line("!", "", "", NoText)>>

\* The header main() writes for a single --template request.
SingleHeader(h, t) ==
    <<Line("! Configuration generated from template", t, "", NoText),
      Line("! Device:", h, "", NoText),
      Line("!", "", "", NoText)>>

\* A bulk loop whose handler catches rendering errors only.
CaughtRenderOnly(r) == r.status = "RuntimeError"

\* except Exception: KeyError, ValueError and RuntimeError all derive from it.
Caught(r) == r.status \in {"KeyError", "ValueError", "RuntimeError"}

\* A fabric render that runs the isolated render whatever the composed
\* attempt did.
AfterComposedAlwaysFallback(ok) == "fallback"

\* The try block of _render_fabric_template returns the composed output;
\* any exception enters the except block.
AfterComposed(ok) == IF ok THEN "return" ELSE "fallback"

\* A main() that reports success however it ends.
ExitAlwaysZero(code, lines) ==
    /\ pc' = "done"
    /\ exitCode' = 0
    /\ stdout' = stdout \o lines

\* sys.exit(code), or the return of main() (code 0), after printing lines.
Exit(code, lines) ==
    /\ pc' = "done"
    /\ exitCode' = code
    /\ stdout' = stdout \o lines

\* parser.parse_args(): --device is declared required=True.
ParseArgs ==
    /\ pc = "parse"
    /\ IF args.device = NoHost
       THEN Exit(2, <<Line("error: the following arguments are required",
                           "--device", "", NoText)>>)
       ELSE pc' = "init" /\ UNCHANGED <<stdout, exitCode>>
    /\ UNCHANGED <<doc, ret, args, todo, cur, tvars, attempts, failures,
                   configs, single, files>>

\* BGPEVPNConfigGenerator(...): the loader exits the process on a missing or
\* malformed data model file.
InitGenerator ==
    /\ pc = "init"
    /\ IF args.data_model # "ok"
       THEN Exit(1, <<Line("Error loading data model", args.data_model, "", NoText)>>)
       ELSE pc' = "dispatch" /\ UNCHANGED <<stdout, exitCode>>
    /\ UNCHANGED <<doc, ret, args, todo, cur, tvars, attempts, failures,
                   configs, single, files>>

RECURSIVE DeviceLines(_, _)
DeviceLines(d, hs) ==
    IF hs = <<>> THEN <<>>
    ELSE <<Line("device", Head(hs), GetDeviceRole(d, Head(hs)).value, NoText)>>
         \o DeviceLines(d, Tail(hs))

\* if args.list_devices: ... return
ListDevices ==
    /\ pc = "dispatch"
    /\ args.list_devices
    /\ LET r == GetDeviceList(doc)
       IN  IF r.status # "ok"
           THEN Exit(1, <<Line("Traceback", r.status, "", NoText)>>)
           ELSE Exit(0, <<Line("Available devices:", "", "", NoText)>>
                        \o DeviceLines(doc, Sorted(r.value)))
    /\ UNCHANGED <<doc, ret, args, todo, cur, tvars, attempts, failures,
                   configs, single, files>>

\* if args.list_templates: ... return
ListTemplates ==
    /\ pc = "dispatch"
    /\ ~args.list_devices
    /\ args.list_templates
    /\ Exit(0, <<Line("Available templates:", "", "", NoText)>>
               \o [i \in 1..Len(TemplateOrder) |->
                      Line("template", TemplateOrder[i], "", NoText)])
    /\ UNCHANGED <<doc, ret, args, todo, cur, tvars, attempts, failures,
                   configs, single, files>>

\* if args.device not in generator.get_device_list(): sys.exit(1)
CheckDevice ==
    /\ pc = "dispatch"
    /\ ~args.list_devices
    /\ ~args.list_templates
    /\ LET r == GetDeviceList(doc)
       IN  IF r.status # "ok"
           THEN Exit(1, <<Line("Traceback", r.status, "", NoText)>>)
           ELSE IF args.device \notin r.value
           THEN Exit(1, <<Line("Error: Device not found in data model",
                               args.device, "", NoText)>>)
           ELSE pc' = "generate" /\ UNCHANGED <<stdout, exitCode>>
    /\ UNCHANGED <<doc, ret, args, todo, cur, tvars, attempts, failures,
                   configs, single, files>>

\* if args.all_templates: generate_all_configs up to its loop (with or
\* without save_device_configs around it).
StartAll ==
    /\ pc = "generate"
    /\ args.all_templates
    /\ todo' = AllTemplates(GetDeviceRole(doc, args.device).value)
    /\ configs' = <<>>
    /\ pc' = "loop"
    /\ UNCHANGED <<doc, ret, args, cur, tvars, attempts, failures, single,
                   stdout, files, exitCode>>

\* elif args.template: generate_config(args.device, args.template)
StartSingle ==
    /\ pc = "generate"
    /\ ~args.all_templates
    /\ args.template # ""
    /\ cur' = args.template
    /\ attempts' = <<>>
    /\ pc' = "config"
    /\ UNCHANGED <<doc, ret, args, todo, tvars, failures, configs, single,
                   stdout, files, exitCode>>

\* else: "Must specify either --template or --all-templates"; sys.exit(1)
NoMode ==
    /\ pc = "generate"
    /\ ~args.all_templates
    /\ args.template = ""
    /\ Exit(1, <<Line("Error: Must specify either --template or --all-templates",
                      "", "", NoText)>>)
    /\ UNCHANGED <<doc, ret, args, todo, cur, tvars, attempts, failures,
                   configs, single, files>>

\* for template_name in all_templates: try: generate_config(...)
LoopNext ==
    /\ pc = "loop"
    /\ todo # <<>>
    /\ cur' = Head(todo)
    /\ todo' = Tail(todo)
    /\ attempts' = <<>>
    /\ pc' = "config"
    /\ UNCHANGED <<doc, ret, args, tvars, failures, configs, single, stdout,
                   files, exitCode>>

\* The result r of generate_config reaches its caller: the try/except of the
\* bulk loop, which fills the slot of cur, or the try block of main().
Deliver(r) ==
    IF args.all_templates /\ (r.status = "ok" \/ Caught(r))
    THEN /\ configs' = (cur :> (IF r.status = "ok" THEN r.value
                                ELSE ErrorText(cur, args.device, r)))
                       @@ configs
         /\ pc' = "loop"
         /\ UNCHANGED single
    ELSE /\ single' = r
         /\ pc' = "emit"
         /\ UNCHANGED configs

\* generate_config up to the render: the template name check and the
\* template variables of the device.
GenerateConfigBegin ==
    /\ pc = "config"
    /\ IF cur \notin DOMAIN AvailableTemplates
       THEN Deliver(Raise("ValueError", cur)) /\ UNCHANGED tvars
       ELSE LET v == GenerateDeviceSpecificVars(doc, args.device)
            IN  IF v.status # "ok"
                THEN Deliver(v) /\ UNCHANGED tvars
                ELSE /\ tvars' = v
                     /\ pc' = "render"
                     /\ UNCHANGED <<configs, single>>
    /\ UNCHANGED <<doc, ret, args, todo, cur, attempts, failures, stdout,
                   files, exitCode>>

\* Definition mode: get_template and render, any failure re-raised as
\* RuntimeError.
RenderDefinition ==
    /\ pc = "render"
    /\ StartsWithDefn(cur)
    /\ \E ok \in BOOLEAN :
          /\ ok \/ failures < MaxFailures
          /\ failures' = IF ok THEN failures ELSE failures + 1
          /\ Deliver(IF ok THEN Ok(Text("definition", cur, args.device, "none"))
                     ELSE Raise("RuntimeError", cur))
    /\ UNCHANGED <<doc, ret, args, todo, cur, tvars, attempts, stdout, files,
                   exitCode>>

\* Fabric mode, first attempt: the wrapper of nine includes, the macro
\* fragment, the template body and the macro call.
RenderComposed ==
    /\ pc = "render"
    /\ ~StartsWithDefn(cur)
    /\ \E ok \in BOOLEAN :
          /\ ok \/ failures < MaxFailures
          /\ failures' = IF ok THEN failures ELSE failures + 1
          /\ attempts' = Append(attempts, [mode |-> "composed", ok |-> ok])
          /\ IF AfterComposed(ok) = "return"
             THEN Deliver(Ok(Text("composed", cur, args.device,
                                  WrapperMacro(tvars.value.names,
                                               AvailableTemplates[cur]))))
             ELSE pc' = "fallback" /\ UNCHANGED <<configs, single>>
    /\ UNCHANGED <<doc, ret, args, todo, cur, tvars, stdout, files, exitCode>>

\* Fabric mode, the except block: the template rendered alone; its failure
\* leaves _render_fabric_template and is re-raised as RuntimeError.
RenderIsolated ==
    /\ pc = "fallback"
    /\ \E ok \in BOOLEAN :
          /\ ok \/ failures < MaxFailures
          /\ failures' = IF ok THEN failures ELSE failures + 1
          /\ attempts' = Append(attempts, [mode |-> "isolated", ok |-> ok])
          /\ Deliver(IF ok THEN Ok(Text("isolated", cur, args.device, "none"))
                     ELSE Raise("RuntimeError", cur))
    /\ UNCHANGED <<doc, ret, args, todo, cur, tvars, stdout, files, exitCode>>

\* The slots of configs in insertion order.
SlotOrder == SelectSeq(TemplateOrder, LAMBDA t : t \in DOMAIN configs)

\* The bulk loop is over: save_device_configs writes one file per slot, or
\* main() prints every slot under a banner; main() returns.
EmitAll ==
    /\ pc = "loop"
    /\ todo = <<>>
    /\ IF args.output_dir
       THEN /\ files' = [f \in {FileName(args.device, t) : t \in DOMAIN configs}
                            |-> [header |-> BulkHeader(f.device, f.template),
                                 body |-> configs[f.template]]]
                        @@ files
            /\ Exit(0, [i \in 1..Len(SlotOrder) |->
                           Line("Saved:", SlotOrder[i], "", NoText)])
       ELSE /\ UNCHANGED files
            /\ Exit(0, [i \in 1..Len(SlotOrder) |->
                           Line("Template:", SlotOrder[i], "", configs[SlotOrder[i]])])
    /\ UNCHANGED <<doc, ret, args, todo, cur, tvars, attempts, failures,
                   configs, single>>

\* The result reached the try block of main(): an exception is reported and
\* exits 1; the text of a single request is written or printed.
EmitSingle ==
    /\ pc = "emit"
    /\ IF single.status # "ok"
       THEN /\ Exit(1, <<Line("Error generating configuration", single.status,
                              "", NoText)>>)
            /\ UNCHANGED files
       ELSE IF args.output_dir
       THEN /\ files' = (FileName(args.device, args.template)
                            :> [header |-> SingleHeader(args.device, args.template),
                                body |-> single.value])
                        @@ files
            /\ Exit(0, <<Line("Configuration saved to:", args.template, "", NoText)>>)
       ELSE /\ UNCHANGED files
            /\ Exit(0, <<Line("config", args.template, "", single.value)>>)
    /\ UNCHANGED <<doc, ret, args, todo, cur, tvars, attempts, failures,
                   configs, single>>

\* ------------------------------------------------- runs of the generator

\* devices.roles of the documents the generator runs on: h1 as spine, as
\* border, in the spine and the leaf list, in the client list alone, in no
\* list, and as the only entry of a document with no other role list.
RunRoleMaps ==
    {BaseRoles,
     [BaseRoles EXCEPT !.spine = {}, !.border = {"h1"}, !.leaf = {}],
     [BaseRoles EXCEPT !.leaf = {"h1"}, !.client = {}],
     [BaseRoles EXCEPT !.spine = {}, !.leaf = {}, !.route_reflector = {},
                       !.client = {"h1"}],
     [BaseRoles EXCEPT !.spine = {}, !.route_reflector = {}, !.client = {}],
     [r \in {"leaf"} |-> {"h1"}]}

RunDocs ==
    {[BaseDoc EXCEPT !.roles = rm, !.omitted = om] :
        rm \in RunRoleMaps, om \in {{}, {<<"fabric">>}}}
    \cup {[BaseDoc EXCEPT !.omitted = {<<"devices">>}]}

RequestedTemplates == Range(TemplateOrder) \cup {"FABRIC-BOGUS"}

GenerateArgs ==
    {[NoArgs EXCEPT !.device = h, !.all_templates = TRUE, !.output_dir = o] :
        h \in Hosts \cup {NoHost}, o \in BOOLEAN}
    \cup {[NoArgs EXCEPT !.device = h, !.template = t, !.output_dir = o] :
            h \in Hosts \cup {NoHost}, t \in RequestedTemplates \cup {""},
            o \in BOOLEAN}
    \cup {[NoArgs EXCEPT !.device = h, !.template = "FABRIC-VRF",
                         !.all_templates = TRUE] : h \in Hosts}

ListArgs ==
    {x \in {[NoArgs EXCEPT !.device = h, !.list_devices = ld,
                           !.list_templates = lt, !.all_templates = a] :
               h \in {"h1", NoHost}, ld \in BOOLEAN, lt \in BOOLEAN,
               a \in BOOLEAN} :
        x.list_devices \/ x.list_templates}

LoadArgs ==
    {[NoArgs EXCEPT !.device = "h1", !.all_templates = TRUE, !.data_model = m] :
        m \in {"missing", "malformed"}}

RunArgs == GenerateArgs \cup ListArgs \cup LoadArgs

Init ==
    /\ doc \in RunDocs
    /\ ret = NoCall
    /\ args \in RunArgs
    /\ pc = "parse"
    /\ todo = <<>>
    /\ cur = ""
    /\ tvars = Ok(<<>>)
    /\ attempts = <<>>
    /\ failures = 0
    /\ configs = <<>>
    /\ single = Ok(<<>>)
    /\ stdout = <<>>
    /\ files = <<>>
    /\ exitCode = NoExit

Next ==
    \/ ParseArgs
    \/ InitGenerator
    \/ ListDevices
    \/ ListTemplates
    \/ CheckDevice
    \/ StartAll
    \/ StartSingle
    \/ NoMode
    \/ LoopNext
    \/ GenerateConfigBegin
    \/ RenderDefinition
    \/ RenderComposed
    \/ RenderIsolated
    \/ EmitAll
    \/ EmitSingle

Spec == Init /\ [][Next]_vars

\* ====================================================== Device Role Resolver

RolePrecedence == <<"spine", "border", "leaf">>

\* The first role of the precedence order whose list holds h, a missing list
\* holding nothing; "unknown" when there is none.
FirstListedRole(d, h) ==
    LET hits == {i \in 1..Len(RolePrecedence) :
                    /\ RolePrecedence[i] \in DOMAIN d.roles
                    /\ h \in d.roles[RolePrecedence[i]]}
    IN  IF hits = {} THEN "unknown" ELSE RolePrecedence[Min(hits)]

\* C1 as claimed: get_device_role returns the first of spine, border, leaf
\* whose list contains the hostname, "unknown" when none does, whatever the
\* route_reflector and client lists hold, and never fails.
C1_RoleNeverFails ==
    ret.op = "get_device_role" =>
        /\ ret.out.status = "ok"
        /\ ret.out.value = FirstListedRole(doc, ret.arg)

\* C1 amended: on every document that has devices.roles, get_device_role
\* returns the first of spine, border, leaf whose list contains the
\* hostname, "unknown" when none does, whatever the route_reflector and
\* client lists hold, a missing role list counting as empty; without
\* devices.roles the dereference raises KeyError.
C1_RolePrecedence ==
    ret.op = "get_device_role" =>
        IF Exists(doc, <<"devices", "roles">>)
        THEN /\ ret.out.status = "ok"
             /\ ret.out.value = FirstListedRole(doc, ret.arg)
        ELSE ret.out.status = "KeyError"

\* A hostname in both the spine and the leaf list, with the border list
\* missing, resolved to spine.
C1_Witness ==
    /\ ret.op = "get_device_role"
    /\ {"spine", "leaf"} \subseteq DOMAIN doc.roles
    /\ "border" \notin DOMAIN doc.roles
    /\ ret.arg \in doc.roles["spine"] \cap doc.roles["leaf"]
    /\ ret.out = Ok("spine")

\* ============================================= Validator and Mapper claims

\* C4 as claimed: on a document for which validate_data_model returns no
\* violation, convert_to_template_vars, with or without a target hostname,
\* does not fail on a missing key.
C4_ValidatedNeverMissingField ==
    (/\ ret.op = "convert_to_template_vars"
     /\ ValidateDataModel(doc) = Ok(<<>>))
        => ret.out.status # "KeyError"

\* The names of the definitions of the mapped ids, taken in the order of
\* the mapped list, ids without a definition skipped.
RECURSIVE NamesInMappedOrder(_, _)
NamesInMappedOrder(d, ids) ==
    IF ids = <<>> THEN <<>>
    ELSE LET found == {i \in 1..Len(d.definitions) :
                          d.definitions[i].id = Head(ids)}
         IN  (IF found = {} THEN <<>> ELSE <<d.definitions[Min(found)].name>>)
             \o NamesInMappedOrder(d, Tail(ids))

\* The names of the definitions whose id is one of ids, in the order of
\* vrfs.definitions.
NamesInDefinitionOrder(d, ids) ==
    LET sel == SelectSeq(d.definitions,
                         LAMBDA v : \E j \in 1..Len(ids) : ids[j] = v.id)
    IN  [i \in 1..Len(sel) |-> sel[i].name]

IdsOf(d, h) ==
    LET at == {i \in 1..Len(d.mappings) : d.mappings[i].device = h}
    IN  IF at = {} THEN <<>> ELSE d.mappings[Min(at)].ids

IsMappingKey(d, h) == \E i \in 1..Len(d.mappings) : d.mappings[i].device = h

\* C5 as claimed, on documents the validator accepts and for a non-empty or
\* absent target: for a target hostname that is a key of
\* vrfs.device_mappings, vrf_list is the names of its mapped ids taken in
\* turn, undefined ids skipped; for any other target there is no vrf_list.
C5_VrfListInMappedOrder ==
    (/\ ret.op = "convert_to_template_vars"
     /\ ret.out.status = "ok"
     /\ ret.arg # EmptyHost
     /\ ValidateDataModel(doc) = Ok(<<>>)) =>
        IF IsMappingKey(doc, ret.arg)
        THEN /\ ret.out.value.has_vrf_list
             /\ ret.out.value.vrf_list
                    = NamesInMappedOrder(doc, IdsOf(doc, ret.arg))
        ELSE ~ret.out.value.has_vrf_list

\* C5 amended: for a non-empty target hostname that is a key of
\* vrfs.device_mappings, vrf_list is the names of the VRF definitions whose
\* id occurs in its mapped list, in the order of vrfs.definitions, each
\* definition once, undefined ids skipped; for a target that is no key, is
\* empty or is absent there is no vrf_list.
C5_VrfListInDefinitionOrder ==
    (ret.op = "convert_to_template_vars" /\ ret.out.status = "ok") =>
        IF ret.arg \notin {NoHost, EmptyHost} /\ IsMappingKey(doc, ret.arg)
        THEN /\ ret.out.value.has_vrf_list
             /\ "vrf_list" \in ret.out.value.names
             /\ ret.out.value.vrf_list
                    = NamesInDefinitionOrder(doc, IdsOf(doc, ret.arg))
        ELSE /\ ~ret.out.value.has_vrf_list
             /\ "vrf_list" \notin ret.out.value.names

\* A device mapped to two ids of which only the first is defined: a
\* vrf_list of length one holding that VRF's name.
C5_Witness ==
    /\ ret.op = "convert_to_template_vars"
    /\ ret.out.status = "ok"
    /\ IsMappingKey(doc, ret.arg)
    /\ Len(IdsOf(doc, ret.arg)) = 2
    /\ \E i \in 1..Len(doc.definitions) :
           /\ doc.definitions[i].id = IdsOf(doc, ret.arg)[1]
           /\ ret.out.value.vrf_list = <<doc.definitions[i].name>>
    /\ \A i \in 1..Len(doc.definitions) :
           doc.definitions[i].id # IdsOf(doc, ret.arg)[2]

\* The four invariants of the validator, stated on the document.
UnresolvedRequired(d) ==
    SelectSeq(IF Exists(d, <<"validation", "required_fields">>)
              THEN d.required_fields ELSE <<>>,
              LAMBDA p : \E q \in Prefixes(p) : ~Exists(d, q))

SharedVrfId(d) ==
    \E i, j \in 1..Len(d.definitions) :
        i # j /\ d.definitions[i].id = d.definitions[j].id

WithoutLoopback(d) ==
    {h \in Hosts : (\E r \in DOMAIN d.roles : h \in d.roles[r]) /\ h \notin d.underlay}

UndefinedIds(d, m) ==
    {m.ids[j] : j \in 1..Len(m.ids)}
        \ {d.definitions[i].id : i \in 1..Len(d.definitions)}

BadMappings(d) == SelectSeq(d.mappings, LAMBDA m : UndefinedIds(d, m) # {})

ExpectedViolations(d) ==
    LET req == UnresolvedRequired(d)
        bad == BadMappings(d)
    IN  [i \in 1..Len(req) |-> RequiredMsg(req[i])]
        \o (IF SharedVrfId(d) THEN <<UniqueMsg>> ELSE <<>>)
        \o (IF WithoutLoopback(d) # {} THEN <<LoopbackMsg(WithoutLoopback(d))>>
            ELSE <<>>)
        \o [i \in 1..Len(bad) |->
               InvalidVrfMsg(bad[i].device, UndefinedIds(d, bad[i]))]

HasValidatedSections(d) ==
    \A i \in 1..Len(ValidatorDerefs) : CheckFieldExists(d, ValidatorDerefs[i])

\* What validate_data_model owes on a document: in this order, one message
\* per unresolved required path, the uniqueness message iff two definitions
\* share an id, one message naming exactly the hostnames without an underlay
\* loopback iff there are any, and one message per mapped hostname listing
\* an undefined id; the result is empty iff all four invariants hold.
ReportsAll ==
    /\ ret.out.status = "ok"
    /\ ret.out.value = ExpectedViolations(doc)
    /\ (ret.out.value = <<>>) <=>
           /\ UnresolvedRequired(doc) = <<>>
           /\ ~SharedVrfId(doc)
           /\ WithoutLoopback(doc) = {}
           /\ BadMappings(doc) = <<>>

\* C10 as claimed: on every document that has the vrfs and the devices
\* section, validate_data_model evaluates all four checks without
\* short-circuiting and returns their messages in order, empty iff all four
\* invariants hold.
C10_SectionsSuffice ==
    (/\ ret.op = "validate_data_model"
     /\ Exists(doc, <<"vrfs">>)
     /\ Exists(doc, <<"devices">>)) => ReportsAll

\* C10 amended: on every document that has the four fields the validator
\* reads (vrfs.definitions, vrfs.device_mappings, devices.roles,
\* devices.loopbacks.underlay), validate_data_model evaluates all four
\* checks without short-circuiting and returns their messages in order,
\* empty iff all four invariants hold; a document that lacks one of the
\* four fields makes it raise KeyError instead of returning.
C10_ValidatorReportsAll ==
    ret.op = "validate_data_model" =>
        IF HasValidatedSections(doc) THEN ReportsAll
        ELSE ret.out.status = "KeyError"

\* A validation that reports all four kinds of violation at once, two of
\* them for mapped hostnames.
C10_Witness ==
    /\ ret.op = "validate_data_model"
    /\ ret.out.status = "ok"
    /\ Len(ret.out.value) >= 5
    /\ ret.out.value[1].msg = "Required field missing"
    /\ \E i \in 1..Len(ret.out.value) : ret.out.value[i] = UniqueMsg
    /\ \E i \in 1..Len(ret.out.value) :
           ret.out.value[i].msg = "Devices missing underlay loopbacks"
    /\ ret.out.value[Len(ret.out.value)].msg = "Device references invalid VRF IDs"
    /\ ret.out.value[Len(ret.out.value) - 1].msg = "Device references invalid VRF IDs"

\* ================================================ Template Selector claims

SpineSet ==
    {"FABRIC-VRF", "FABRIC-LOOPBACKS", "FABRIC-NVE", "FABRIC-MCAST", "FABRIC-EVPN"}

FabricNames == SpineSet \cup {"FABRIC-OVERLAY", "FABRIC-NAC-IOT", "FABRIC-IPSEC"}

\* The fixed table of the Template Selector.
SelectorTable(role) ==
    CASE role = "spine" -> SpineSet
      [] role = "leaf" -> SpineSet \cup {"FABRIC-OVERLAY", "FABRIC-NAC-IOT"}
      [] role = "border" -> SpineSet \cup {"FABRIC-OVERLAY", "FABRIC-IPSEC"}
      [] OTHER -> {}

\* generate_all_configs has been through its whole template list.
BulkLoopOver == args.all_templates /\ pc = "loop" /\ todo = <<>>

ResolvedRole == GetDeviceRole(doc, args.device).value

\* C2: the fabric templates generate_all_configs produces slots for are a
\* function of the resolved role alone, the fixed table: none for unknown,
\* the spine set for spine, plus OVERLAY and NAC-IOT for leaf, plus OVERLAY
\* and IPSEC for border.
C2_FabricSlotsFollowRole ==
    BulkLoopOver =>
        {t \in DOMAIN configs : t \in FabricNames} = SelectorTable(ResolvedRole)

\* A leaf's bulk generation with FABRIC-NAC-IOT and FABRIC-OVERLAY and
\* without FABRIC-IPSEC.
C2_Witness ==
    /\ BulkLoopOver
    /\ ResolvedRole = "leaf"
    /\ {"FABRIC-NAC-IOT", "FABRIC-OVERLAY"} \subseteq DOMAIN configs
    /\ "FABRIC-IPSEC" \notin DOMAIN configs

DefinitionSlots == {t \in DOMAIN configs : t \notin FabricNames}

\* C3 as claimed: every bulk generation, whatever the role, holds a slot for
\* every definition template, and these are seventeen.
C3_SeventeenDefinitionSlots ==
    BulkLoopOver =>
        /\ \A i \in 1..Len(TemplateOrder) :
               TemplateOrder[i] \notin FabricNames
                   => TemplateOrder[i] \in DOMAIN configs
        /\ Cardinality(DefinitionSlots) = 17

\* C3 amended: every bulk generation, whatever the role (unknown included),
\* holds a slot for every definition (DEFN-*) template, and the definition
\* templates number nine (seventeen is the number of all templates).
C3_NineDefinitionSlots ==
    BulkLoopOver =>
        /\ \A i \in 1..Len(TemplateOrder) :
               TemplateOrder[i] \notin FabricNames
                   => TemplateOrder[i] \in DOMAIN configs
        /\ Cardinality(DefinitionSlots) = 9
        /\ Len(TemplateOrder) = 17

\* The bulk generation of a device whose role is unknown: the definition
\* slots and nothing else.
C3_Witness ==
    /\ BulkLoopOver
    /\ ResolvedRole = "unknown"
    /\ Cardinality(DOMAIN configs) = 9

\* ========================================================= Renderer claims

IntendedMacro(t) ==
    IF t = "FABRIC-VRF" THEN "vrfDefinitionBuild"
    ELSE IF t = "FABRIC-OVERLAY" THEN "overlayBuild"
    ELSE "none"

IsFabricRender(text) == text.kind \in {"composed", "isolated"}

\* C6 as claimed: a fabric render calls vrfDefinitionBuild exactly for
\* FABRIC-VRF and overlayBuild exactly for FABRIC-OVERLAY, and no macro for
\* any other fabric template.
C6_MacroByTemplate ==
    /\ \A t \in DOMAIN configs :
           IsFabricRender(configs[t]) => configs[t].macro = IntendedMacro(t)
    /\ (pc = "emit" /\ single.status = "ok" /\ IsFabricRender(single.value))
           => single.value.macro = IntendedMacro(cur)

ComposedOk == [mode |-> "composed", ok |-> TRUE]
ComposedFailed == [mode |-> "composed", ok |-> FALSE]
IsolatedOk == [mode |-> "isolated", ok |-> TRUE]
IsolatedFailed == [mode |-> "isolated", ok |-> FALSE]

\* generate_config has handed the result for the fabric template cur to its
\* caller.
FabricDelivered == attempts # <<>> /\ pc \in {"loop", "emit", "done"}

\* How the delivered result for cur was produced: "composed", "isolated",
\* or "error" for an exception.
DeliveredKind ==
    IF args.all_templates
    THEN configs[cur].kind
    ELSE IF single.status = "ok" THEN single.value.kind ELSE "error"

\* C7: a fabric render makes at most two attempts, the composed one first
\* and the isolated one only after the composed one failed, then once; the
\* result is the composed output when the first succeeds, the isolated
\* output when only the second does, an error when both fail.
C7_TwoAttemptsInOrder ==
    /\ attempts \in {<<>>, <<ComposedOk>>, <<ComposedFailed>>,
                     <<ComposedFailed, IsolatedOk>>,
                     <<ComposedFailed, IsolatedFailed>>}
    /\ FabricDelivered =>
          /\ attempts # <<ComposedFailed>>
          /\ attempts = <<ComposedOk>> => DeliveredKind = "composed"
          /\ attempts = <<ComposedFailed, IsolatedOk>> => DeliveredKind = "isolated"
          /\ attempts = <<ComposedFailed, IsolatedFailed>> => DeliveredKind = "error"
    /\ (pc = "fallback") = (attempts = <<ComposedFailed>>)

\* A composed attempt that failed followed by an isolated attempt whose
\* output became the result.
C7_Witness ==
    /\ FabricDelivered
    /\ attempts = <<ComposedFailed, IsolatedOk>>
    /\ DeliveredKind = "isolated"

\* ============================================================ bulk runs

SelectedTemplates == Range(AllTemplates(ResolvedRole))

MapperFails == GenerateDeviceSpecificVars(doc, args.device).status # "ok"

SlotIsFor(t) ==
    /\ configs[t].template = t
    /\ configs[t].kind \in {"definition", "composed", "isolated", "error"}

\* Every slot filled so far belongs to its template, and holds an error
\* string when the Mapper fails on the document.
SlotsFilled ==
    /\ \A t \in DOMAIN configs : SlotIsFor(t)
    /\ (DOMAIN configs # {} /\ MapperFails) =>
           \A t \in DOMAIN configs : configs[t].kind = "error"

\* C8: in a bulk run no failure of one template aborts the run or keeps the
\* remaining templates from being attempted: the loop ends with exactly one
\* slot per selected template, a rendered text or an error string naming
\* the template, and the run exits 0.
C8_BulkRunNeverAborts ==
    /\ args.all_templates => pc # "emit"
    /\ (args.all_templates /\ pc = "loop") =>
           /\ DOMAIN configs \cup Range(todo) = SelectedTemplates
           /\ DOMAIN configs \cap Range(todo) = {}
           /\ SlotsFilled
    /\ (pc = "done" /\ DOMAIN configs # {}) =>
           /\ exitCode = 0
           /\ DOMAIN configs = SelectedTemplates
           /\ SlotsFilled

\* A finished bulk run in which the first template failed, a fabric template
\* fell back to its isolated render and the templates after them were
\* rendered.
C8_Witness ==
    /\ pc = "done"
    /\ exitCode = 0
    /\ "FABRIC-EVPN" \in DOMAIN configs
    /\ DOMAIN configs = SelectedTemplates
    /\ configs["DEFN-VRF"].kind = "error"
    /\ configs["FABRIC-VRF"].kind = "isolated"
    /\ configs["DEFN-ROLES"].kind = "definition"
    /\ configs["FABRIC-EVPN"].kind = "composed"

\* The run called the Mapper: generate_config passed its template name check.
MapperCalled == cur \in DOMAIN AvailableTemplates

\* C9 as claimed: every run that maps a document lacking a field the Mapper
\* requires, a single --template request or an --all-templates run, ends
\* with a non-zero exit.
C9_MissingFieldIsFatal ==
    (pc = "done" /\ MapperCalled /\ MapperFails) => exitCode \notin {0, NoExit}

\* ============================================================ exit codes

\* The requested device is in no role list of the document.
DeviceUnknown ==
    \A r \in DOMAIN doc.roles : args.device \notin doc.roles[r]

\* Generation raised an error that reached main(): the failure of a single
\* explicitly requested template.
UnhandledError == single.status # "ok"

Listing == args.list_devices \/ args.list_templates

HasRoles == Exists(doc, <<"devices", "roles">>)

\* The exit status main() owes an invocation, decided in the order main()
\* decides it.
ExpectedExit ==
    IF args.device = NoHost THEN 2
    ELSE IF args.data_model # "ok" THEN 1
    ELSE IF args.list_devices THEN (IF HasRoles THEN 0 ELSE 1)
    ELSE IF args.list_templates THEN 0
    ELSE IF ~HasRoles \/ DeviceUnknown THEN 1
    ELSE IF args.all_templates THEN 0
    ELSE IF args.template = "" THEN 1
    ELSE IF UnhandledError THEN 1
    ELSE 0

C12_ListingNeedsNoDevice ==
    (pc = "done" /\ Listing /\ args.device = NoHost /\ HasRoles) =>
        /\ exitCode = 0
        /\ stdout # <<>>
        /\ stdout[1].what \in {"Available devices:", "Available templates:"}

\* ================================================================ Writer

\* The fixed comment header: template name line, hostname line,
\* generator-identity line.
ClaimedHeader(h, t) ==
    <<Line("! Configuration generated from template", t, "", NoText),
      Line("! Device:", h, "", NoText),
      Line("! Generated by BGP EVPN Config Generator", "", "", NoText)>>

\* C13 as claimed: every file written to the output directory is named
\* {hostname}_{template}.cfg for the requested hostname and one of the
\* generated templates, and starts with the same fixed header (template
\* name, hostname, generator identity) followed by the rendered text,
\* whether a bulk run or a single-template request wrote it.
C13_SameHeaderBothModes ==
    \A f \in DOMAIN files :
        /\ f = FileName(args.device, f.template)
        /\ Len(files[f].header) >= 3
        /\ SubSeq(files[f].header, 1, 3) = ClaimedHeader(f.device, f.template)
        /\ files[f].body.template = f.template

====
